---- MODULE Spec2Model ----
(***************************************************************************)
(* Model of examples/minimal-winit/src/main.rs: the bouncing-box World     *)
(* (update, draw) and the winit ApplicationHandler that owns it (resumed,  *)
(* window_event, device_event, about_to_wait).                             *)
(*                                                                         *)
(* Specifications:                                                         *)
(*   Spec          the application: the event loop delivering events to    *)
(*                 App, starting from App::default().                      *)
(*   SpecUpdate    World::update iterated from World::new().               *)
(*   SpecCycle     SpecUpdate with update called again and again.          *)
(*   SpecUpdateAny World::update applied from any state of a bounded set.  *)
(*   SpecDraw      World::draw applied to any box position and buffer of   *)
(*                 a bounded set.                                          *)
(***************************************************************************)
EXTENDS Integers, Sequences, FiniteSets, TLC

VARIABLES
    window,     \* App.window: TRUE for Some(window), FALSE for None
    pixels,     \* App.pixels: TRUE for Some(pixels), FALSE for None
    frame,      \* the byte buffer handed to draw (pixels.frame_mut()); empty while there is none
    surface,    \* size of the presentation surface, <<width, height>>
    world,      \* App.world: [box_x, box_y, velocity_x, velocity_y], all i16
    exiting,    \* event_loop.exit() has been called
    log,        \* sequence of method names passed to log_error
    panicked,   \* the process was aborted by an arithmetic-overflow panic
    op,         \* history: name of the last handler or method that ran
    old,        \* history: [world, frame, surface] as they were when that handler started
    calls,      \* history: the methods that handler called, in order
    err,        \* history: the library method that returned Err to that handler, or "none"
    ticks,      \* history: number of counted update() calls, modulo Period
    fromNew,    \* history: the run started from World::new()
    redraws,    \* history: number of RedrawRequested events handled with a surface
    presented,  \* history: number of successful pixels.render() calls
    resumes     \* history: number of resumed() calls

vars == <<window, pixels, frame, surface, world, exiting, log, panicked,
          op, old, calls, err, ticks, fromNew, redraws, presented, resumes>>

---------------------------------------------------------------------------
(* Program constants                                                       *)

WIDTH == 320

HEIGHT == 240

BOX_SIZE == 64

\* Colours written by draw, in R,G,B,A order.
BoxColour == <<94, 72, 232, 255>>

BackgroundColour == <<72, 178, 232, 255>>

\* Length of the buffer Pixels::new(WIDTH, HEIGHT, ..) allocates.
FrameLen == WIDTH * HEIGHT * 4

---------------------------------------------------------------------------
(* Bounds of the model                                                     *)

\* RedrawRequested events handled per run of the application.
MaxRedraws == 2

\* resumed() calls per run of the application.
MaxResumes == 2

\* Largest window width and height the window system delivers.
MaxSize == 1

\* Longest of the short buffers handed to draw in SpecDraw.
MaxShortLen == 9

\* Positions up to this far beyond the canvas are inputs of SpecUpdateAny.
MaxOutside == 3

---------------------------------------------------------------------------
(* 16-bit signed arithmetic                                                *)

I16Min == -32768

I16Max == 32767

InI16(n) == I16Min <= n /\ n <= I16Max

\* Two's-complement wrap of an integer to i16 (an `as i16` cast, or the
\* result of an operation when overflow checks are off).
I16(n) == ((n - I16Min) % 65536) + I16Min

---------------------------------------------------------------------------
(* World                                                                   *)

\* Calls of update after which a box moving between x <= 0 and
\* x + BOX_SIZE > WIDTH is back where it was: one step for each position
\* 0..WIDTH - BOX_SIZE + 1 in each direction.
PeriodX == 2 * (WIDTH - BOX_SIZE + 1)

\* The same between y <= 0 and y + BOX_SIZE > HEIGHT.
PeriodY == 2 * (HEIGHT - BOX_SIZE + 1)

\* The least common multiple of PeriodX and PeriodY, both even and with no
\* other common factor.
Period == (PeriodX * PeriodY) \div 2

World_new == [box_x |-> 24, box_y |-> 16, velocity_x |-> 1, velocity_y |-> 1]

\* flip_x without the test at the right bound.
flip_x_left_only(w) == w.box_x <= 0

\* flip_x with a strict test at the left bound.
flip_x_strict(w) == w.box_x < 0 \/ I16(w.box_x + BOX_SIZE) > I16(WIDTH)

\* flip_x with the right-hand test on the box's left edge only.
flip_x_no_size(w) == w.box_x <= 0 \/ w.box_x > I16(WIDTH)

\* The condition of the first `if` of update.
flip_x(w) == w.box_x <= 0 \/ I16(w.box_x + BOX_SIZE) > I16(WIDTH)

\* flip_y with a strict test at the top bound.
flip_y_strict(w) == w.box_y < 0 \/ I16(w.box_y + BOX_SIZE) > I16(HEIGHT)

\* flip_y with the bottom test on the box's top edge only.
flip_y_no_size(w) == w.box_y <= 0 \/ w.box_y > I16(HEIGHT)

\* The condition of the second `if` of update.
flip_y(w) == w.box_y <= 0 \/ I16(w.box_y + BOX_SIZE) > I16(HEIGHT)

\* update with its second `if` written as `else if`.
update_else_if(w) ==
    LET vx == IF flip_x(w) THEN I16(w.velocity_x * (-1)) ELSE w.velocity_x
        vy == IF ~flip_x(w) /\ flip_y(w)
              THEN I16(w.velocity_y * (-1)) ELSE w.velocity_y
    IN  [box_x      |-> I16(w.box_x + vx),
         box_y      |-> I16(w.box_y + vy),
         velocity_x |-> vx,
         velocity_y |-> vy]

\* update negating a velocity by subtracting 2 from it.
update_subtracting(w) ==
    LET vx == IF flip_x(w) THEN I16(w.velocity_x - 2) ELSE w.velocity_x
        vy == IF flip_y(w) THEN I16(w.velocity_y - 2) ELSE w.velocity_y
    IN  [box_x      |-> I16(w.box_x + vx),
         box_y      |-> I16(w.box_y + vy),
         velocity_x |-> vx,
         velocity_y |-> vy]

update(w) ==
    LET vx == IF flip_x(w) THEN I16(w.velocity_x * (-1)) ELSE w.velocity_x
        vy == IF flip_y(w) THEN I16(w.velocity_y * (-1)) ELSE w.velocity_y
    IN  [box_x      |-> I16(w.box_x + vx),
         box_y      |-> I16(w.box_y + vy),
         velocity_x |-> vx,
         velocity_y |-> vy]

\* Some i16 operation of update(w) leaves the i16 range: a panic when the
\* build has overflow checks, a wrapped result when it has not.
update_overflows(w) ==
    LET vx == IF flip_x(w) THEN I16(w.velocity_x * (-1)) ELSE w.velocity_x
        vy == IF flip_y(w) THEN I16(w.velocity_y * (-1)) ELSE w.velocity_y
    IN  \/ (w.box_x > 0 /\ ~InI16(w.box_x + BOX_SIZE))
        \/ (w.box_y > 0 /\ ~InI16(w.box_y + BOX_SIZE))
        \/ (flip_x(w) /\ ~InI16(w.velocity_x * (-1)))
        \/ (flip_y(w) /\ ~InI16(w.velocity_y * (-1)))
        \/ ~InI16(w.box_x + vx)
        \/ ~InI16(w.box_y + vy)


\* inside_the_box with inclusive right and bottom edges.
inside_the_box_inclusive(w, x, y) ==
    /\ x >= w.box_x
    /\ x <= I16(w.box_x + BOX_SIZE)
    /\ y >= w.box_y
    /\ y <= I16(w.box_y + BOX_SIZE)

\* The value of `inside_the_box` for pixel (x, y).
inside_the_box(w, x, y) ==
    /\ x >= w.box_x
    /\ x < I16(w.box_x + BOX_SIZE)
    /\ y >= w.box_y
    /\ y < I16(w.box_y + BOX_SIZE)

\* The rgba array draw copies into chunk i of the buffer.
rgba(w, i) ==
    LET x == I16(i % WIDTH)
        y == I16(i \div WIDTH)
    IN  IF inside_the_box(w, x, y) THEN BoxColour ELSE BackgroundColour

---------------------------------------------------------------------------
(* Byte buffers                                                            *)
(*                                                                         *)
(* A byte buffer (&mut [u8]) is held as the sequence of its whole 4-byte   *)
(* chunks, run-length encoded, and the remainder chunks_exact_mut(4) does  *)
(* not visit:                                                              *)
(*   chunks  a sequence of runs <<count, <<b1, b2, b3, b4>>>>, count > 0,  *)
(*           adjacent runs holding different chunks;                       *)
(*   tail    the last Len mod 4 bytes.                                     *)
(* Two buffers are equal exactly when they hold the same bytes.            *)

RECURSIVE span_total(_, _, _)
\* The number of chunks the runs lo to hi of a sequence of runs stand for.
span_total(runs, lo, hi) ==
    IF lo > hi THEN 0
    ELSE IF lo = hi THEN runs[lo][1]
    ELSE LET mid == (lo + hi) \div 2
         IN  span_total(runs, lo, mid) + span_total(runs, mid + 1, hi)

\* frame.chunks_exact_mut(4).len()
chunk_count(f) == span_total(f.chunks, 1, Len(f.chunks))

\* frame.len()
buf_len(f) == 4 * chunk_count(f) + Len(f.tail)

RECURSIVE run_at(_, _, _, _)
\* The chunk at index i (from 0) of the chunks the runs lo to hi stand for.
run_at(runs, lo, hi, i) ==
    IF lo = hi THEN runs[lo][2]
    ELSE LET mid  == (lo + hi) \div 2
             left == span_total(runs, lo, mid)
         IN  IF i < left
             THEN run_at(runs, lo, mid, i)
             ELSE run_at(runs, mid + 1, hi, i - left)

\* Chunk i (from 0) of the buffer.
chunk_at(f, i) == run_at(f.chunks, 1, Len(f.chunks), i)

\* Two sequences of runs, one after the other.
join(a, b) ==
    IF a = <<>> THEN b
    ELSE IF b = <<>> THEN a
    ELSE IF a[Len(a)][2] = b[1][2]
         THEN SubSeq(a, 1, Len(a) - 1)
              \o << <<a[Len(a)][1] + b[1][1], b[1][2]>> >>
              \o Tail(b)
         ELSE a \o b

RECURSIVE encode(_, _, _)
\* The runs of the chunks g[lo], ..., g[hi].
encode(g, lo, hi) ==
    IF lo > hi THEN <<>>
    ELSE IF \A i \in lo..hi : g[i] = g[lo] THEN << <<hi - lo + 1, g[lo]>> >>
    ELSE LET mid == (lo + hi) \div 2
         IN  join(encode(g, lo, mid), encode(g, mid + 1, hi))

\* A buffer of len bytes, all equal to b.
Filled(len, b) ==
    [chunks |-> IF len < 4 THEN <<>> ELSE << <<len \div 4, <<b, b, b, b>>>> >>,
     tail   |-> [k \in 1..(len % 4) |-> b]]

\* draw blending each chunk half and half with the chunk it replaces.
draw_blending(w, f) ==
    LET n == chunk_count(f)
        g == [i \in 0..(n - 1) |->
                [c \in 1..4 |-> (chunk_at(f, i)[c] + rgba(w, i)[c]) \div 2]]
    IN  [chunks |-> encode(g, 0, n - 1), tail |-> f.tail]

\* The buffer f after draw: chunks_exact_mut(4) yields the frame.len() / 4
\* whole chunks in order, and chunk i is overwritten with rgba(i); the
\* remainder of fewer than 4 bytes is not visited.
draw(w, f) ==
    LET n == chunk_count(f)
        g == [i \in 0..(n - 1) |-> rgba(w, i)]
    IN  [chunks |-> encode(g, 0, n - 1), tail |-> f.tail]

\* The Default a derive would give World: every field zero.
World_default_derived == [box_x |-> 0, box_y |-> 0, velocity_x |-> 0, velocity_y |-> 0]

\* Default::default() for World, the value App::default() holds.
World_default == [box_x |-> 24, box_y |-> 16, velocity_x |-> 1, velocity_y |-> 1]

---------------------------------------------------------------------------
(* Inputs                                                                  *)

\* No buffer: App.pixels is None.
NoFrame == Filled(0, 0)

\* The buffer of a new Pixels instance: WIDTH * HEIGHT * 4 zero bytes.
NewFrame == Filled(FrameLen, 0)

\* Window and surface sizes delivered by the window system, <<width, height>>.
Sizes == { <<n, n>> : n \in 0..MaxSize }

\* Box coordinates near a canvas bound, and the initial one.
NearX == ((0 - MaxOutside)..MaxOutside)
         \cup ((WIDTH - BOX_SIZE - MaxOutside)..(WIDTH - BOX_SIZE + MaxOutside))
         \cup {World_new.box_x}

NearY == ((0 - MaxOutside)..MaxOutside)
         \cup ((HEIGHT - BOX_SIZE - MaxOutside)..(HEIGHT - BOX_SIZE + MaxOutside))
         \cup {World_new.box_y}

AnyWorlds == [box_x : NearX, box_y : NearY, velocity_x : {-1, 1}, velocity_y : {-1, 1}]

\* Box positions handed to draw in SpecDraw: the initial one, the corners
\* of the range of motion, and one position outside the canvas on each side.
DrawWorlds ==
    { [box_x |-> p[1], box_y |-> p[2], velocity_x |-> 1, velocity_y |-> 1] :
        p \in { <<24, 16>>, <<0, 0>>, <<-1, -1>>, <<257, 177>>, <<0, 177>>, <<256, 0>> } }

\* Buffers handed to draw in SpecDraw: short ones of every length up to
\* MaxShortLen, and ones shorter than, equal to and longer than FrameLen.
DrawLens == (0..MaxShortLen) \cup {FrameLen - 4, FrameLen, FrameLen + 5}

DrawBuffers == { Filled(len, b) : len \in DrawLens, b \in {0, 170} }

---------------------------------------------------------------------------
(* The application                                                         *)

\* App::default(): no window, no Pixels, World::default(); nothing has run.
Init ==
    /\ window = FALSE
    /\ pixels = FALSE
    /\ frame = NoFrame
    /\ surface = <<0, 0>>
    /\ world = World_default
    /\ exiting = FALSE
    /\ log = <<>>
    /\ panicked = FALSE
    /\ op = "init"
    /\ old = [world |-> World_default, frame |-> NoFrame, surface |-> <<0, 0>>]
    /\ calls = <<>>
    /\ err = "none"
    /\ ticks = 0
    /\ fromNew = TRUE
    /\ redraws = 0
    /\ presented = 0
    /\ resumes = 0

\* The event loop delivers events until exit() has been requested or the
\* process has panicked.
Running == ~exiting /\ ~panicked

\* The history variables after a handler or method named name has started;
\* ticks counts the update() calls of a run that began at World::new().
Started(name) ==
    /\ op' = name
    /\ old' = [world |-> world, frame |-> frame, surface |-> surface]
    /\ ticks' = IF name = "update" /\ fromNew THEN (ticks + 1) % Period ELSE ticks
    /\ UNCHANGED fromNew

\* The handler called the methods cs, in that order, and the library method
\* e returned Err to it ("none": every library method returned Ok).
Called(cs, e) ==
    /\ calls' = cs
    /\ err' = e

\* log_error(method_name, err)
log_error(method_name) == log' = Append(log, method_name)

\* ApplicationHandler::resumed.  created: create_window returned Ok;
\* size: the window's inner_size(); built: Pixels::new returned Ok.
resumed ==
    /\ Running
    /\ resumes < MaxResumes
    /\ resumes' = resumes + 1
    /\ Started("resumed")
    /\ \E created \in BOOLEAN :
          IF created
          THEN /\ window' = TRUE
               /\ \E built \in BOOLEAN :
                     IF built
                     THEN /\ pixels' = TRUE
                          /\ frame' = NewFrame
                          /\ \E size \in Sizes : surface' = size
                          /\ Called(<<"create_window", "Pixels::new">>, "none")
                     ELSE /\ UNCHANGED <<pixels, frame, surface>>
                          /\ Called(<<"create_window", "Pixels::new">>, "Pixels::new")
          ELSE /\ UNCHANGED <<window, pixels, frame, surface>>
               /\ Called(<<"create_window">>, "create_window")
    /\ UNCHANGED <<world, exiting, log, panicked, redraws, presented>>

\* window_event, WindowEvent::RedrawRequested.  rendered: pixels.render()
\* returned Ok.
RedrawRequested ==
    /\ Running
    /\ redraws < MaxRedraws
    /\ Started("RedrawRequested")
    /\ IF pixels
       THEN /\ frame' = draw(world, frame)
            /\ redraws' = redraws + 1
            /\ \E rendered \in BOOLEAN :
                  IF rendered
                  THEN /\ presented' = presented + 1
                       /\ UNCHANGED <<log, exiting>>
                       /\ Called(<<"draw", "pixels.render">>, "none")
                  ELSE /\ log_error("pixels.render")
                       /\ exiting' = TRUE
                       /\ UNCHANGED presented
                       /\ Called(<<"draw", "pixels.render", "log_error", "exit">>,
                                 "pixels.render")
       ELSE /\ UNCHANGED <<frame, redraws, presented, log, exiting>>
            /\ Called(<<>>, "none")
    /\ UNCHANGED <<window, pixels, surface, world, panicked, resumes>>

\* window_event, WindowEvent::CloseRequested
CloseRequested ==
    /\ Running
    /\ Started("CloseRequested")
    /\ exiting' = TRUE
    /\ Called(<<"exit">>, "none")
    /\ UNCHANGED <<window, pixels, frame, surface, world, log, panicked,
                   redraws, presented, resumes>>

\* Resized requesting exit when there is no Pixels to resize.
Resized_closing ==
    /\ Running
    /\ Started("Resized")
    /\ IF pixels
       THEN \E resized \in BOOLEAN :
               IF resized
               THEN /\ \E size \in Sizes : surface' = size
                    /\ UNCHANGED <<log, exiting>>
                    /\ Called(<<"pixels.resize_surface">>, "none")
               ELSE /\ log_error("pixels.resize_surface")
                    /\ exiting' = TRUE
                    /\ UNCHANGED surface
                    /\ Called(<<"pixels.resize_surface", "log_error", "exit">>,
                              "pixels.resize_surface")
       ELSE /\ exiting' = TRUE
            /\ UNCHANGED <<surface, log>>
            /\ Called(<<"exit">>, "none")
    /\ UNCHANGED <<window, pixels, frame, world, panicked, redraws, presented,
                   resumes>>

\* window_event, WindowEvent::Resized(size).  resized: resize_surface
\* returned Ok.
Resized ==
    /\ Running
    /\ Started("Resized")
    /\ IF pixels
       THEN \E resized \in BOOLEAN :
               IF resized
               THEN /\ \E size \in Sizes : surface' = size
                    /\ UNCHANGED <<log, exiting>>
                    /\ Called(<<"pixels.resize_surface">>, "none")
               ELSE /\ log_error("pixels.resize_surface")
                    /\ exiting' = TRUE
                    /\ UNCHANGED surface
                    /\ Called(<<"pixels.resize_surface", "log_error", "exit">>,
                              "pixels.resize_surface")
       ELSE /\ UNCHANGED <<surface, log, exiting>>
            /\ Called(<<>>, "none")
    /\ UNCHANGED <<window, pixels, frame, world, panicked, redraws, presented,
                   resumes>>

\* window_event, any other WindowEvent: `_ => ()`
OtherWindowEvent ==
    /\ Running
    /\ Started("OtherWindowEvent")
    /\ Called(<<>>, "none")
    /\ UNCHANGED <<window, pixels, frame, surface, world, exiting, log,
                   panicked, redraws, presented, resumes>>

\* ApplicationHandler::device_event: empty body
device_event ==
    /\ Running
    /\ Started("device_event")
    /\ Called(<<>>, "none")
    /\ UNCHANGED <<window, pixels, frame, surface, world, exiting, log,
                   panicked, redraws, presented, resumes>>

\* ApplicationHandler::about_to_wait: empty body
about_to_wait ==
    /\ Running
    /\ Started("about_to_wait")
    /\ Called(<<>>, "none")
    /\ UNCHANGED <<window, pixels, frame, surface, world, exiting, log,
                   panicked, redraws, presented, resumes>>

window_event == RedrawRequested \/ CloseRequested \/ Resized \/ OtherWindowEvent

Next == resumed \/ window_event \/ device_event \/ about_to_wait

Spec == Init /\ [][Next]_vars

---------------------------------------------------------------------------
(* World::update and World::draw on their own                              *)

\* One call of update.  checked: the build has overflow checks, so that an
\* overflowing operation panics instead of wrapping.
UpdateCall ==
    /\ ~panicked
    /\ Started("update")
    /\ Called(<<>>, "none")
    /\ \E checked \in BOOLEAN :
          IF checked /\ update_overflows(world)
          THEN panicked' = TRUE /\ world' = world
          ELSE panicked' = FALSE /\ world' = update(world)
    /\ UNCHANGED <<window, pixels, frame, surface, exiting, log, redraws,
                   presented, resumes>>

\* A draw that advances the world before it fills the buffer.
DrawCall_updating ==
    /\ ~panicked
    /\ Started("draw")
    /\ Called(<<>>, "none")
    /\ world' = update(world)
    /\ frame' = draw(world', frame)
    /\ UNCHANGED <<window, pixels, surface, exiting, log, panicked,
                   redraws, presented, resumes>>

\* One call of draw on the buffer.
DrawCall ==
    /\ ~panicked
    /\ Started("draw")
    /\ Called(<<>>, "none")
    /\ frame' = draw(world, frame)
    /\ UNCHANGED <<window, pixels, surface, world, exiting, log, panicked,
                   redraws, presented, resumes>>

\* update iterated from World::new().
InitUpdate ==
    /\ Init
    /\ world = World_new

NextUpdate == UpdateCall

SpecUpdate == InitUpdate /\ [][NextUpdate]_vars

\* update iterated from World::new() without end: nothing but a panic stops
\* a caller that keeps calling update.
SpecCycle == InitUpdate /\ [][NextUpdate]_vars /\ WF_vars(UpdateCall)

\* update from any state of AnyWorlds.
InitUpdateAny ==
    /\ window = FALSE
    /\ pixels = FALSE
    /\ frame = NoFrame
    /\ surface = <<0, 0>>
    /\ world \in AnyWorlds
    /\ exiting = FALSE
    /\ log = <<>>
    /\ panicked = FALSE
    /\ op = "init"
    /\ old = [world |-> world, frame |-> NoFrame, surface |-> <<0, 0>>]
    /\ calls = <<>>
    /\ err = "none"
    /\ ticks = 0
    /\ fromNew = (world = World_new)
    /\ redraws = 0
    /\ presented = 0
    /\ resumes = 0

NextUpdateAny == UpdateCall

SpecUpdateAny == InitUpdateAny /\ [][NextUpdateAny]_vars

\* draw of any box position of DrawWorlds on any buffer of DrawBuffers.
InitDraw ==
    /\ window = FALSE
    /\ pixels = FALSE
    /\ frame \in DrawBuffers
    /\ surface = <<0, 0>>
    /\ world \in DrawWorlds
    /\ exiting = FALSE
    /\ log = <<>>
    /\ panicked = FALSE
    /\ op = "init"
    /\ old = [world |-> world, frame |-> frame, surface |-> <<0, 0>>]
    /\ calls = <<>>
    /\ err = "none"
    /\ ticks = 0
    /\ fromNew = (world = World_new)
    /\ redraws = 0
    /\ presented = 0
    /\ resumes = 0

NextDraw == DrawCall

SpecDraw == InitDraw /\ [][NextDraw]_vars

---------------------------------------------------------------------------
(* Properties                                                              *)

RECURSIVE updates(_, _)
\* w after n calls of update.
updates(w, n) == IF n = 0 THEN w ELSE updates(update(w), n - 1)

\* C1 (as claimed): every RedrawRequested handled while a Pixels surface
\* exists advances the world by one update() before draw and render, so
\* after n handled redraws the world is World::new() advanced by n updates.
C1_Original == world = updates(World_new, redraws)

\* C2: from World::new(), after any number of update() calls the box
\* rectangle meets the canvas and no box edge is more than one pixel
\* outside it.
C2_BoundaryContainment ==
    /\ world.box_x < WIDTH /\ world.box_x + BOX_SIZE > 0
    /\ world.box_y < HEIGHT /\ world.box_y + BOX_SIZE > 0
    /\ world.box_x >= -1 /\ world.box_x + BOX_SIZE <= WIDTH + 1
    /\ world.box_y >= -1 /\ world.box_y + BOX_SIZE <= HEIGHT + 1

\* C2 witness: update() has put the box one pixel past the right and the
\* bottom bound at once.
C2_Witness ==
    /\ op = "update"
    /\ world.box_x + BOX_SIZE = WIDTH + 1
    /\ world.box_y + BOX_SIZE = HEIGHT + 1

\* C3 (as claimed): from World::new(), box_x stays within [-1, 256] and
\* box_y within [-1, 176].
C3_Original ==
    /\ world.box_x \in -1..(WIDTH - BOX_SIZE)
    /\ world.box_y \in -1..(HEIGHT - BOX_SIZE)

\* C3 (amended): from World::new(), box_x stays within [-1, 257] and box_y
\* within [-1, 177].
C3_PeriodicityBound ==
    /\ world.box_x \in -1..(WIDTH - BOX_SIZE + 1)
    /\ world.box_y \in -1..(HEIGHT - BOX_SIZE + 1)

\* C3 witness: update() has moved the box from 256 to 257, beyond the
\* claimed bound.
C3_Witness ==
    /\ op = "update"
    /\ old.world.box_x = WIDTH - BOX_SIZE
    /\ world.box_x = WIDTH - BOX_SIZE + 1

\* C4 (as claimed): draw on a buffer whose length is not WIDTH * HEIGHT * 4
\* ends in an error and has modified no byte of the buffer.
C4_Original ==
    (op = "draw" /\ buf_len(old.frame) # FrameLen)
        => (panicked /\ frame = old.frame)

\* The colour the claim gives pixel index i for a box at (w.box_x, w.box_y).
C5_Colour(w, i) ==
    IF /\ w.box_x <= i % WIDTH /\ i % WIDTH < w.box_x + BOX_SIZE
       /\ w.box_y <= i \div WIDTH /\ i \div WIDTH < w.box_y + BOX_SIZE
    THEN <<94, 72, 232, 255>>
    ELSE <<72, 178, 232, 255>>

\* Every chunk a sequence of runs stands for holds the colour of its index.
C5_RunsAgree(w, runs) ==
    \A j \in 1..Len(runs) :
        LET first == span_total(runs, 1, j - 1)
        IN  \A i \in first..(first + runs[j][1] - 1) : runs[j][2] = C5_Colour(w, i)

\* C5: after draw on a buffer of WIDTH * HEIGHT * 4 bytes, every pixel i in
\* [0, WIDTH * HEIGHT) holds the box colour exactly when (i mod WIDTH,
\* i div WIDTH) lies in the box rectangle and the background colour
\* otherwise; with the box at (24, 16), pixels (24,16) and (87,16) are box
\* colour and pixels (23,16) and (88,16) background.
C5_PixelClassification ==
    (op = "draw" /\ buf_len(frame) = FrameLen) =>
        /\ chunk_count(frame) = WIDTH * HEIGHT
        /\ frame.tail = <<>>
        /\ C5_RunsAgree(world, frame.chunks)
        /\ (world.box_x = 24 /\ world.box_y = 16) =>
              /\ chunk_at(frame, 16 * WIDTH + 24) = <<94, 72, 232, 255>>
              /\ chunk_at(frame, 16 * WIDTH + 87) = <<94, 72, 232, 255>>
              /\ chunk_at(frame, 16 * WIDTH + 23) = <<72, 178, 232, 255>>
              /\ chunk_at(frame, 16 * WIDTH + 88) = <<72, 178, 232, 255>>

\* C5 witness: draw has filled a buffer of WIDTH * HEIGHT * 4 bytes, none
\* of which held a colour byte, with the box at (24, 16).
C5_Witness ==
    /\ op = "draw"
    /\ buf_len(frame) = FrameLen
    /\ world.box_x = 24 /\ world.box_y = 16
    /\ old.frame.chunks = << <<WIDTH * HEIGHT, <<170, 170, 170, 170>>>> >>

\* C6: one update() from box_x = 0 with velocity_x = +1 gives velocity_x =
\* -1 and box_x = -1; likewise on the y axis.
C6_Reflection ==
    op = "update" =>
        /\ (old.world.box_x = 0 /\ old.world.velocity_x = 1)
              => (world.velocity_x = -1 /\ world.box_x = -1)
        /\ (old.world.box_y = 0 /\ old.world.velocity_y = 1)
              => (world.velocity_y = -1 /\ world.box_y = -1)

\* C6 witness: update() has run from box_x = 0, velocity_x = +1.
C6_Witness ==
    /\ op = "update"
    /\ old.world.box_x = 0 /\ old.world.velocity_x = 1
    /\ world.box_x = -1

\* C7 (as claimed): when a box edge sits exactly on a canvas bound and the
\* box moves toward it (0 with velocity -1, 256 or 176 with velocity +1),
\* the next update() flips that velocity and the box is fully on-canvas
\* after the step.
C7_Original ==
    op = "update" =>
        /\ (\/ (old.world.box_x = 0 /\ old.world.velocity_x = -1)
            \/ (old.world.box_x = WIDTH - BOX_SIZE /\ old.world.velocity_x = 1))
              => /\ world.velocity_x = 0 - old.world.velocity_x
                 /\ 0 <= world.box_x /\ world.box_x + BOX_SIZE <= WIDTH
        /\ (\/ (old.world.box_y = 0 /\ old.world.velocity_y = -1)
            \/ (old.world.box_y = HEIGHT - BOX_SIZE /\ old.world.velocity_y = 1))
              => /\ world.velocity_y = 0 - old.world.velocity_y
                 /\ 0 <= world.box_y /\ world.box_y + BOX_SIZE <= HEIGHT

\* C7 (amended): at the bound 0 (box_x = 0 with velocity_x = -1, box_y = 0
\* with velocity_y = -1) the next update() flips that velocity and the box
\* stays on-canvas; at the far bound (box_x = 256, box_y = 176 with
\* velocity +1) the next update() does not flip: the box moves one pixel
\* past the bound, to 257 or 177, and the update() after that flips the
\* velocity and moves it back.
C7_FlipAhead ==
    op = "update" =>
        /\ (old.world.box_x = 0 /\ old.world.velocity_x = -1)
              => (world.velocity_x = 1 /\ world.box_x = 1)
        /\ (old.world.box_x = WIDTH - BOX_SIZE /\ old.world.velocity_x = 1)
              => (world.velocity_x = 1 /\ world.box_x = WIDTH - BOX_SIZE + 1)
        /\ (old.world.box_x = WIDTH - BOX_SIZE + 1 /\ old.world.velocity_x = 1)
              => (world.velocity_x = -1 /\ world.box_x = WIDTH - BOX_SIZE)
        /\ (old.world.box_y = 0 /\ old.world.velocity_y = -1)
              => (world.velocity_y = 1 /\ world.box_y = 1)
        /\ (old.world.box_y = HEIGHT - BOX_SIZE /\ old.world.velocity_y = 1)
              => (world.velocity_y = 1 /\ world.box_y = HEIGHT - BOX_SIZE + 1)
        /\ (old.world.box_y = HEIGHT - BOX_SIZE + 1 /\ old.world.velocity_y = 1)
              => (world.velocity_y = -1 /\ world.box_y = HEIGHT - BOX_SIZE)

\* C7 witness: update() has run with the box's top edge on the bound 0 and
\* its left edge on the far bound, each moving toward its bound.
C7_Witness ==
    /\ op = "update"
    /\ old.world.box_y = 0 /\ old.world.velocity_y = -1
    /\ old.world.box_x = WIDTH - BOX_SIZE /\ old.world.velocity_x = 1

\* C8: from World::new(), after any number of update() calls each velocity
\* is +1 or -1, and each update() changes each coordinate by exactly 1.
C8_UnitVelocity ==
    /\ world.velocity_x \in {-1, 1}
    /\ world.velocity_y \in {-1, 1}
    /\ op = "update" =>
          /\ world.box_x - old.world.box_x \in {-1, 1}
          /\ world.box_y - old.world.box_y \in {-1, 1}

\* C8 witness: update() has flipped both velocities in one step.
C8_Witness ==
    /\ op = "update"
    /\ world.velocity_x = 0 - old.world.velocity_x
    /\ world.velocity_y = 0 - old.world.velocity_y

\* C9: a second draw with the world unchanged leaves the buffer as the
\* first draw left it, and the chunks draw has written are those it writes
\* on any other buffer of that length: they depend on the box position
\* only, not on what the buffer held.
C9_RasterIdempotence ==
    op = "draw" =>
        /\ draw(world, frame) = frame
        /\ frame.chunks = draw(world, Filled(buf_len(frame), 255)).chunks
        /\ buf_len(frame) = FrameLen => frame = draw(world, NewFrame)

\* C9 witness: draw has run twice in a row on a buffer of WIDTH * HEIGHT * 4
\* bytes, with the box on the canvas.
C9_Witness ==
    /\ op = "draw"
    /\ buf_len(frame) = FrameLen
    /\ old.frame = frame
    /\ Len(frame.chunks) > 1

\* C10: draw leaves box_x, box_y, velocity_x and velocity_y as they were,
\* and the buffer it produces is the one it produces with both velocities
\* negated: it reads the box position only.
C10_DrawFrame ==
    op = "draw" =>
        /\ world = old.world
        /\ frame = draw([world EXCEPT !.velocity_x = 0 - world.velocity_x,
                                      !.velocity_y = 0 - world.velocity_y],
                        old.frame)

\* C10 witness: draw has changed the buffer.
C10_Witness ==
    /\ op = "draw"
    /\ frame # old.frame
    /\ world.box_x = 0 /\ world.box_y = 0

\* C11 (as claimed): every library method that returns Err (create_window,
\* Pixels::new, pixels.render, pixels.resize_surface) is passed to
\* log_error and followed by event_loop.exit().
C11_Original ==
    err # "none" => (exiting /\ log # <<>> /\ log[Len(log)] = err)

\* C12: from World::new(), in every state update() reaches, each i16
\* operation of the next update() (box_x + 64, box_y + 64, velocity * -1,
\* box_x + velocity_x, box_y + velocity_y) has its result in
\* [-32768, 32767]: no update() overflows or panics.
C12_NoOverflow ==
    /\ ~panicked
    /\ ~update_overflows(world)
    /\ world.box_x + BOX_SIZE \in -32768..32767
    /\ world.box_y + BOX_SIZE \in -32768..32767
    /\ world.velocity_x * (-1) \in -32768..32767
    /\ world.velocity_y * (-1) \in -32768..32767
    /\ world.box_x + update(world).velocity_x \in -32768..32767
    /\ world.box_y + update(world).velocity_y \in -32768..32767

\* C12 witness: update() has run on the largest operands it meets: box_x =
\* 257 and box_y = 177, both velocities negated.
C12_Witness ==
    /\ op = "update"
    /\ old.world.box_x = WIDTH - BOX_SIZE + 1
    /\ old.world.box_y = HEIGHT - BOX_SIZE + 1
    /\ world.velocity_x = -1 /\ world.velocity_y = -1

\* C13: the world App::default() holds is (24,16,+1,+1), equal to
\* World::new(), and resumed (also a second time), Resized and
\* CloseRequested leave it as it was.
C13_WorldLifecycle ==
    /\ World_default = World_new
    /\ op = "init" =>
          world = [box_x |-> 24, box_y |-> 16, velocity_x |-> 1, velocity_y |-> 1]
    /\ op \in {"resumed", "Resized", "CloseRequested"} => world = old.world

\* C13 witness: resumed has run a second time and replaced the Pixels
\* instance.
C13_Witness ==
    /\ op = "resumed"
    /\ resumes = 2
    /\ pixels /\ err = "none"
    /\ old.frame # NoFrame

\* C14: one update() negates velocity_x exactly when the box_x it starts
\* from has box_x <= 0 or box_x + 64 > 320, negates velocity_y exactly when
\* box_y <= 0 or box_y + 64 > 240, and then adds each new velocity to its
\* coordinate; the new x values are those update() gives from the same x
\* values with any other y values, and likewise for y, so both velocities
\* flip in one step when both conditions hold.
C14_UpdateStep ==
    op = "update" =>
        LET o  == old.world
            vx == IF o.box_x <= 0 \/ o.box_x + 64 > 320
                  THEN 0 - o.velocity_x ELSE o.velocity_x
            vy == IF o.box_y <= 0 \/ o.box_y + 64 > 240
                  THEN 0 - o.velocity_y ELSE o.velocity_y
            ox == update([o EXCEPT !.box_y = 16, !.velocity_y = 1])
            oy == update([o EXCEPT !.box_x = 24, !.velocity_x = 1])
        IN  /\ world.velocity_x = vx
            /\ world.velocity_y = vy
            /\ world.box_x = o.box_x + vx
            /\ world.box_y = o.box_y + vy
            /\ world.box_x = ox.box_x /\ world.velocity_x = ox.velocity_x
            /\ world.box_y = oy.box_y /\ world.velocity_y = oy.velocity_y

\* C14 witness: update() has run from a corner, box_x <= 0 and box_y + 64 >
\* 240, and has negated both velocities.
C14_Witness ==
    /\ op = "update"
    /\ old.world.box_x <= 0
    /\ old.world.box_y + BOX_SIZE > HEIGHT
    /\ world.velocity_x = 0 - old.world.velocity_x
    /\ world.velocity_y = 0 - old.world.velocity_y

\* C15: under repeated update() from (24, 16, +1, +1) every state has
\* 0 <= box_x <= 257 and 0 <= box_y <= 177, and box_x = 0, box_x = 257,
\* box_y = 0 and box_y = 177 are each reached.
C15_Range ==
    /\ [](world.box_x \in 0..257 /\ world.box_y \in 0..177)
    /\ <>(world.box_x = 0)
    /\ <>(world.box_x = 257)
    /\ <>(world.box_y = 0)
    /\ <>(world.box_y = 177)

\* C15 witness: update() has brought the box to the least value of both
\* coordinates at once.
C15_Witness ==
    /\ op = "update"
    /\ world.box_x = 0 /\ world.velocity_x = -1
    /\ world.box_y = 0 /\ world.velocity_y = -1

\* The number of update() calls, modulo PeriodX, that take (24, +1) to
\* (w.box_x, w.velocity_x): the box moves right from 24 to 257, then left
\* from 256 to 0, then right from 1.
C16_PhaseX(w) ==
    IF w.velocity_x = 1
    THEN (w.box_x - World_new.box_x) % PeriodX
    ELSE (2 * (WIDTH - BOX_SIZE) + 2 - World_new.box_x) - w.box_x

\* The same for (16, +1) and (w.box_y, w.velocity_y), modulo PeriodY.
C16_PhaseY(w) ==
    IF w.velocity_y = 1
    THEN (w.box_y - World_new.box_y) % PeriodY
    ELSE (2 * (HEIGHT - BOX_SIZE) + 2 - World_new.box_y) - w.box_y

\* No two numbers of calls below Period have the same pair of phases.
C16_PhasesDistinct ==
    Cardinality({ <<t % PeriodX, t % PeriodY>> : t \in 0..(Period - 1) }) = Period

\* C16, in every state after ticks update() calls (counted modulo 90978)
\* from (24, 16, +1, +1).
C16_CycleState ==
    /\ PeriodX = 514 /\ PeriodY = 354 /\ Period = 90978
    /\ (world.box_x = 24 /\ world.velocity_x = 1) <=> (ticks % 514 = 0)
    /\ (world.box_y = 16 /\ world.velocity_y = 1) <=> (ticks % 354 = 0)
    /\ (world = World_new) <=> (ticks = 0)
    /\ ticks % PeriodX = C16_PhaseX(world)
    /\ ticks % PeriodY = C16_PhaseY(world)
    /\ C16_PhasesDistinct

\* C16: under repeated update() from (24, 16, +1, +1), (box_x, velocity_x)
\* is (24, +1) after exactly the multiples of 514 calls and (box_y,
\* velocity_y) is (16, +1) after exactly the multiples of 354, the state is
\* (24, 16, +1, +1) again after 90978 calls and not before, the states after
\* 0..90977 calls are 90978 different ones, and the box is at the left, the
\* right, the top and the bottom wall again and again.
C16_Cycle ==
    /\ []C16_CycleState
    /\ []<>(world.box_x <= 0)
    /\ []<>(world.box_x + BOX_SIZE >= WIDTH)
    /\ []<>(world.box_y <= 0)
    /\ []<>(world.box_y + BOX_SIZE >= HEIGHT)

\* C16 witness: the 90978th update() has brought the world back to
\* (24, 16, +1, +1).
C16_Witness ==
    /\ op = "update"
    /\ ticks = 0
    /\ world = World_new
    /\ old.world.box_x = 23 /\ old.world.box_y = 15

\* An edge state moving inward on the x axis.
C17_TrapX(w) ==
    \/ w.box_x = 0 /\ w.velocity_x = 1
    \/ w.box_x = -1 /\ w.velocity_x = -1

\* An edge state moving inward on the y axis.
C17_TrapY(w) ==
    \/ w.box_y = 0 /\ w.velocity_y = 1
    \/ w.box_y = -1 /\ w.velocity_y = -1

\* C17, for one update(): from an edge state moving inward it flips the
\* velocity and leaves the box in the other edge state; a run that began at
\* (24, 16, +1, +1) is in no such state.
C17_TrapStep ==
    /\ (op = "update" /\ C17_TrapX(old.world)) =>
          /\ world.velocity_x = 0 - old.world.velocity_x
          /\ world.box_x = -1 - old.world.box_x
          /\ C17_TrapX(world)
    /\ (op = "update" /\ C17_TrapY(old.world)) =>
          /\ world.velocity_y = 0 - old.world.velocity_y
          /\ world.box_y = -1 - old.world.box_y
          /\ C17_TrapY(world)
    /\ fromNew => (~C17_TrapX(world) /\ ~C17_TrapY(world))

\* C17: once box_x = 0 with velocity_x = +1, or box_x = -1 with velocity_x =
\* -1, every later update() flips velocity_x and box_x stays in {-1, 0} for
\* ever, never reaching 1; the same for box_y and velocity_y; and no state
\* reached from (24, 16, +1, +1) is such a state.
C17_Trap ==
    /\ []C17_TrapStep
    /\ [](C17_TrapX(world) => [](world.box_x \in {-1, 0} /\ world.box_x # 1))
    /\ [](C17_TrapY(world) => [](world.box_y \in {-1, 0} /\ world.box_y # 1))

\* C17 witness: two update() calls after box_x = 0 with velocity_x = +1 the
\* box is there again, by way of box_x = -1, and box_y is trapped as well.
C17_Witness ==
    /\ op = "update"
    /\ old.world.box_x = -1 /\ old.world.velocity_x = -1
    /\ world.box_x = 0 /\ world.velocity_x = 1
    /\ C17_TrapY(old.world)
    /\ C17_TrapY(world)

\* C18: a RedrawRequested or Resized handled while there is no Pixels calls
\* nothing (no draw, no render, no resize_surface, no exit) and changes
\* neither the frame nor the surface; CloseRequested calls exit and nothing
\* else; and a handler to which render or resize_surface returned Err logs
\* it, requests exit and ends there, without presenting or resizing.
C18_Handlers ==
    /\ (op \in {"RedrawRequested", "Resized"} /\ ~pixels) =>
          /\ calls = <<>>
          /\ ~exiting
          /\ log = <<>>
          /\ frame = old.frame
          /\ surface = old.surface
          /\ presented = 0
    /\ op = "CloseRequested" => (exiting /\ calls = <<"exit">>)
    /\ err \in {"pixels.render", "pixels.resize_surface"} =>
          /\ op = (IF err = "pixels.render" THEN "RedrawRequested" ELSE "Resized")
          /\ exiting
          /\ Len(calls) >= 3
          /\ calls[Len(calls)] = "exit"
          /\ calls[Len(calls) - 1] = "log_error"
          /\ calls[Len(calls) - 2] = err
          /\ \A k \in 1..Len(calls) : calls[k] = "exit" => k = Len(calls)
          /\ surface = old.surface
          /\ presented < redraws \/ err = "pixels.resize_surface"

\* C18 witness: RedrawRequested has been handled after resumed created the
\* window but failed to create the Pixels.
C18_Witness ==
    /\ op = "RedrawRequested"
    /\ window
    /\ ~pixels
    /\ resumes >= 1
    /\ calls = <<>>

====
